---- MODULE Spec2Model ----
(***************************************************************************)
(* Model of cloudkitty/write_orchestrator.py: the OSRTFBackend transient   *)
(* archive and the WriteOrchestrator window aggregator.                    *)
(*                                                                         *)
(* Time is scaled: a timestamp is a natural number of model time units, a  *)
(* wall-clock minute is MinuteLen units and a calendar month MonthLen      *)
(* units.  A datetime is the record of its calendar fields.  Python's None *)
(* is the value None (no timestamp is negative) and NoneDt for datetimes.  *)
(* A raised Python exception ends the running operation; the fields that   *)
(* were assigned before it keep their new values.                          *)
(*                                                                         *)
(* Spec is the orchestrator under add_writer, append and commit, with      *)
(* sinks that may raise.  SpecNoWriter is the orchestrator with no writer  *)
(* added, under append, commit, get_timeframe and a restart primed from    *)
(* the state manager.                                                      *)
(***************************************************************************)
EXTENDS Integers, Sequences, FiniteSets, TLC

\* ---------------------------------------------------------------- bounds
\* The largest period.begin of a record.
MaxTs == 3
\* The period length the orchestrator is constructed with.
Period == 2
\* The length of a minute, in time units.
MinuteLen == 1
\* The longest batch passed to one append.
MaxBatch == 2
\* The most sinks add_writer registers.
MaxSinks == 2
\* The most records passed to append over a run.
MaxRecords == 2

\* A month of two minutes.
MonthLen == MinuteLen * 2

None == -1
NoneDt == [month |-> None, minute |-> None, second |-> None]

Timestamps == 0..MaxTs

Services == {"compute", "volume"}
EmptyDict == [s \in {} |-> <<>>]

\* A usage entry is opaque but for billing.price.
Entry(p) == [price |-> p]

\* The usage mappings a record of a batch may carry.
Usages ==
  { [s \in {"compute"} |-> <<Entry(1)>>],
    [s \in Services |-> IF s = "compute" THEN <<Entry(2)>> ELSE <<Entry(1)>>] }

\* A PeriodRecord; period.end is never read by the code.
Records == [begin : Timestamps, usage : Usages]

RECURSIVE SeqsUpTo(_, _)
SeqsUpTo(S, n) ==
  IF n = 0 THEN {<<>>}
  ELSE LET shorter == SeqsUpTo(S, n - 1)
       IN shorter \cup {Append(q, x) : q \in {r \in shorter : Len(r) = n - 1}, x \in S}

Batches == SeqsUpTo(Records, MaxBatch)

\* --------------------------------------------------------------- helpers
RECURSIVE SumPrice(_)
SumPrice(entries) ==
  IF entries = <<>> THEN 0 ELSE Head(entries).price + SumPrice(Tail(entries))

RECURSIVE SumUsage(_)
SumUsage(data) ==
  IF DOMAIN data = {} THEN 0
  ELSE LET s == CHOOSE x \in DOMAIN data : TRUE
       IN SumPrice(data[s]) + SumUsage([x \in DOMAIN data \ {s} |-> data[x]])

\* The batches of at most n records: the records submitted are capped.
BatchesWithin == [n \in 0..MaxRecords |-> {b \in Batches : Len(b) <= n}]

RemoveAt(q, i) == [j \in 1..(Len(q) - 1) |-> IF j < i THEN q[j] ELSE q[j + 1]]

\* datetime.fromtimestamp: the calendar fields of a timestamp.
FromTimestamp(ts) ==
  [month |-> ts \div MonthLen,
   minute |-> (ts % MonthLen) \div MinuteLen,
   second |-> ts % MinuteLen]

\* ---------------------------------------------------------- OSRTFBackend
\* The entry name holds year, month, day, hour and minute: no seconds.
GenFilename(timeframe) == <<timeframe.month, timeframe.minute>>

FileExists(infolist, filename) ==
  \E i \in 1..Len(infolist) : infolist[i].filename = filename

\* Variant of OsrtfAdd: the entry is written without the existence check.
OsrtfAddAlways(infolist, timeframe, data) ==
  Append(infolist, [filename |-> GenFilename(timeframe), data |-> data])

\* add on the open container: write only when no entry has the name.
OsrtfAdd(infolist, timeframe, data) ==
  LET filename == GenFilename(timeframe)
  IN IF ~FileExists(infolist, filename)
     THEN Append(infolist, [filename |-> filename, data |-> data])
     ELSE infolist

\* What get returns: a decoded payload, or Python's None.
Absent == [present |-> FALSE, data |-> EmptyDict]
Payload(data) == [present |-> TRUE, data |-> data]

\* ZipFile.read: the entry written last under the name, KeyError if none.
ZipRead(infolist, filename) ==
  LET named == {i \in 1..Len(infolist) : infolist[i].filename = filename}
  IN IF named = {} THEN [raised |-> TRUE, value |-> Absent]
     ELSE [raised |-> FALSE,
           value |-> Payload(infolist[CHOOSE i \in named :
                                        \A j \in named : j <= i].data)]

\* Variant of OsrtfGet: a failed read is not caught.
OsrtfGetUncaught(infolist, timeframe) ==
  ZipRead(infolist, GenFilename(timeframe))

\* get on the open container: whatever is raised is swallowed and None is
\* returned.  The JSON text of a mapping of service names to lists of
\* entries with integer prices decodes to that mapping.
OsrtfGet(infolist, timeframe) ==
  LET r == ZipRead(infolist, GenFilename(timeframe))
  IN IF r.raised THEN [raised |-> FALSE, value |-> Absent] ELSE r

\* ----------------------------------------------------- WriteOrchestrator
VARIABLES
  usage_start, usage_end, usage_start_dt, usage_end_dt,
  total, usage_data, osrtf, write_pipeline,
  dt_window,     \* usage_start and usage_end hold datetime objects, whose
                 \* timestamps the two variables then are
  zipfiles,      \* backend: container name -> entries of the zip file
  sm_state, sm_total,   \* the state manager's state and metadata['total']
  received,      \* history: sink -> windows <<start, end>> it was offered
  opened,        \* history: the starts of the windows opened, in order
  committed,     \* history: the window starts whose commit completed
  merged,        \* history: the begins merged since the open window opened
  windowSum,     \* history: window start -> prices merged into the window
  ckExpected,    \* history: the prices merged into the committed windows,
                 \*          as of the last completed commit
  submitted,     \* history: the number of records passed to append so far
  sink_raised,   \* history: some sink has raised so far
  last           \* history: the last operation, its input and its calls

vars == <<usage_start, usage_end, usage_start_dt, usage_end_dt, total,
          usage_data, osrtf, write_pipeline, dt_window, zipfiles, sm_state,
          sm_total,
          received, opened, committed, merged, windowSum, ckExpected,
          submitted, sink_raised, last>>

Months == 0..(MaxTs \div MonthLen)

RECURSIVE SumOver(_, _)
SumOver(f, S) ==
  IF S = {} THEN 0
  ELSE LET x == CHOOSE y \in S : TRUE IN f[x] + SumOver(f, S \ {x})

NoFail == <<0, 0>>

\* A call made to a collaborator: the archive, a sink or the state manager.
Call(name, sink, data, start, end, tot, raised) ==
  [call |-> name, sink |-> sink, data |-> data, start |-> start,
   end |-> end, total |-> tot, raised |-> raised]

GenOsrtfFilename(timeframe) ==
  IF timeframe = NoneDt
  THEN [ok |-> FALSE, filename |-> None]
  ELSE [ok |-> TRUE, filename |-> timeframe.month]

\* _pre_commit: open the month's container on first use only.
PreCommit(st) ==
  IF st.osrtf = None
  THEN LET f == GenOsrtfFilename(st.usage_start_dt)
       IN IF f.ok THEN [st EXCEPT !.osrtf = f.filename]
          ELSE [st EXCEPT !.outcome = "TypeError"]
  ELSE st

\* Variant of Pipeline: a failing sink is skipped and the fan-out goes on.
RECURSIVE PipelineSkipFailed(_, _)
PipelineSkipFailed(st, i) ==
  IF i > Len(st.write_pipeline) THEN st
  ELSE LET fails == st.fail = <<st.ncommit, i>>
           c == Call("append", st.write_pipeline[i], st.usage_data,
                     st.usage_start, st.usage_end, None, fails)
           s1 == [st EXCEPT !.calls = Append(@, c)]
       IN IF fails THEN PipelineSkipFailed(s1, i + 1)
          ELSE PipelineSkipFailed(
                 [s1 EXCEPT !.received[st.write_pipeline[i]] =
                       @ \cup {<<st.usage_start, st.usage_end>>}],
                 i + 1)

\* The fan-out loop of _commit from pipeline position i on; the sink the
\* environment makes fail raises, which ends the commit.
RECURSIVE Pipeline(_, _)
Pipeline(st, i) ==
  IF i > Len(st.write_pipeline) THEN st
  ELSE LET fails == st.fail = <<st.ncommit, i>>
           c == Call("append", st.write_pipeline[i], st.usage_data,
                     st.usage_start, st.usage_end, None, fails)
           s1 == [st EXCEPT !.calls = Append(@, c)]
       IN IF fails THEN [s1 EXCEPT !.outcome = "SinkError"]
          ELSE Pipeline([s1 EXCEPT !.received[st.write_pipeline[i]] =
                              @ \cup {<<st.usage_start, st.usage_end>>}],
                        i + 1)

\* Variant of UpdateStateManager: the window's own total is persisted.
UpdateStateManagerWindowTotal(st) ==
  [st EXCEPT !.sm_state = st.usage_end,
             !.sm_total = SumUsage(st.usage_data),
             !.calls = @ \o <<Call("set_state", 0, EmptyDict, None,
                                   st.usage_end, None, FALSE),
                              Call("set_metadata", 0, EmptyDict, None,
                                   None, SumUsage(st.usage_data), FALSE)>>]

\* _update_state_manager
UpdateStateManager(st) ==
  [st EXCEPT !.sm_state = st.usage_end,
             !.sm_total = st.total,
             !.calls = @ \o <<Call("set_state", 0, EmptyDict, None,
                                   st.usage_end, None, FALSE),
                              Call("set_metadata", 0, EmptyDict, None,
                                   None, st.total, FALSE)>>]

\* Variant of Commit: the state manager is updated before the fan-out.
CommitCheckpointFirst(st) ==
  LET s0 == PreCommit([st EXCEPT !.ncommit = @ + 1])
  IN IF s0.outcome # "running" THEN s0
     ELSE IF s0.usage_start_dt = NoneDt
     THEN [s0 EXCEPT !.outcome = "AttributeError"]
     ELSE
       LET s1 == [s0 EXCEPT
                    !.zipfiles[s0.osrtf] =
                       OsrtfAdd(@, s0.usage_start_dt, s0.usage_data),
                    !.calls = Append(@, Call("add", 0, s0.usage_data,
                                             s0.usage_start, None, None,
                                             FALSE))]
           s2 == Pipeline(UpdateStateManager(s1), 1)
       IN IF s2.outcome # "running" THEN s2
          ELSE LET done == s2.committed \cup {s2.usage_start}
               IN [s2 EXCEPT !.usage_data = EmptyDict,
                             !.committed = done,
                             !.ckExpected = SumOver(s2.windowSum, done)]

\* Variant of Commit: the usage is cleared when a sink raises, too.
CommitClearAlways(st) ==
  LET s0 == PreCommit([st EXCEPT !.ncommit = @ + 1])
  IN IF s0.outcome # "running" THEN s0
     ELSE IF s0.usage_start_dt = NoneDt
     THEN [s0 EXCEPT !.outcome = "AttributeError"]
     ELSE
       LET s1 == [s0 EXCEPT
                    !.zipfiles[s0.osrtf] =
                       OsrtfAdd(@, s0.usage_start_dt, s0.usage_data),
                    !.calls = Append(@, Call("add", 0, s0.usage_data,
                                             s0.usage_start, None, None,
                                             FALSE))]
           s2 == Pipeline(s1, 1)
       IN IF s2.outcome # "running"
          THEN [s2 EXCEPT !.usage_data = EmptyDict]
          ELSE LET s3 == UpdateStateManager(s2)
                   done == s3.committed \cup {s3.usage_start}
               IN [s3 EXCEPT !.usage_data = EmptyDict,
                             !.committed = done,
                             !.ckExpected = SumOver(s3.windowSum, done)]

\* _commit
Commit(st) ==
  LET s0 == PreCommit([st EXCEPT !.ncommit = @ + 1])
  IN IF s0.outcome # "running" THEN s0
     ELSE IF s0.usage_start_dt = NoneDt
     THEN [s0 EXCEPT !.outcome = "AttributeError"]
     ELSE
       LET s1 == [s0 EXCEPT
                    !.zipfiles[s0.osrtf] =
                       OsrtfAdd(@, s0.usage_start_dt, s0.usage_data),
                    !.calls = Append(@, Call("add", 0, s0.usage_data,
                                             s0.usage_start, None, None,
                                             FALSE))]
           s2 == Pipeline(s1, 1)
       IN IF s2.outcome # "running" THEN s2
          ELSE LET s3 == UpdateStateManager(s2)
                   done == s3.committed \cup {s3.usage_start}
               IN [s3 EXCEPT !.usage_data = EmptyDict,
                             !.committed = done,
                             !.ckExpected = SumOver(s3.windowSum, done)]

\* Variant of Dispatch: the total is updated for a new service only.
DispatchTotalInElse(st, data) ==
  [st EXCEPT
     !.usage_data =
        [s \in DOMAIN st.usage_data \cup DOMAIN data |->
           IF s \in DOMAIN data
           THEN IF s \in DOMAIN st.usage_data
                THEN st.usage_data[s] \o data[s]
                ELSE data[s]
           ELSE st.usage_data[s]],
     !.total = @ + SumUsage([s \in DOMAIN data \ DOMAIN st.usage_data |->
                               data[s]])]

\* _dispatch
Dispatch(st, data) ==
  [st EXCEPT
     !.usage_data =
        [s \in DOMAIN st.usage_data \cup DOMAIN data |->
           IF s \in DOMAIN data
           THEN IF s \in DOMAIN st.usage_data
                THEN st.usage_data[s] \o data[s]
                ELSE data[s]
           ELSE st.usage_data[s]],
     !.total = @ + SumUsage(data)]

\* Variant of Scan: the first record is the candidate.
ScanFirst(json_data, idx, candidate_ts, candidate_idx) ==
  [ts |-> json_data[1].begin, idx |-> 1]

\* Variant of Scan: a record as early as the candidate replaces it.
RECURSIVE ScanLastTie(_, _, _, _)
ScanLastTie(json_data, idx, candidate_ts, candidate_idx) ==
  IF idx > Len(json_data) THEN [ts |-> candidate_ts, idx |-> candidate_idx]
  ELSE LET usage_ts == json_data[idx].begin
       IN IF candidate_ts = None \/ usage_ts <= candidate_ts
          THEN ScanLastTie(json_data, idx + 1, usage_ts, idx)
          ELSE ScanLastTie(json_data, idx + 1, candidate_ts, candidate_idx)

\* The scan of _filter_period over json_data[idx..], as the loop runs it.
RECURSIVE Scan(_, _, _, _)
Scan(json_data, idx, candidate_ts, candidate_idx) ==
  IF idx > Len(json_data) THEN [ts |-> candidate_ts, idx |-> candidate_idx]
  ELSE LET usage_ts == json_data[idx].begin
       IN IF candidate_ts = None \/ usage_ts < candidate_ts
          THEN Scan(json_data, idx + 1, usage_ts, idx)
          ELSE Scan(json_data, idx + 1, candidate_ts, candidate_idx)

\* _filter_period: a falsy candidate (None or 0) returns None, which the
\* caller cannot unpack.
FilterPeriod(json_data) ==
  LET c == Scan(json_data, 1, None, 1)
  IN IF c.ts # None /\ c.ts # 0
     THEN [ok |-> TRUE, ts |-> c.ts, usage |-> json_data[c.idx].usage,
           rest |-> RemoveAt(json_data, c.idx)]
     ELSE [ok |-> FALSE, ts |-> None, usage |-> EmptyDict, rest |-> json_data]

\* Variant of CommitAtBoundary: only a record past the end commits.
CommitAtBoundaryStrict(st, ts) ==
  IF st.usage_end # None /\ st.dt_window
  THEN [st EXCEPT !.outcome = "TypeError"]
  ELSE IF st.usage_end # None /\ ts > st.usage_end
  THEN LET c == Commit(st)
       IN IF c.outcome = "running" THEN [c EXCEPT !.usage_start = None] ELSE c
  ELSE st

\* Variant of CommitAtBoundary: a failed commit is swallowed.
CommitAtBoundarySwallow(st, ts) ==
  IF st.usage_end # None /\ st.dt_window
  THEN [st EXCEPT !.outcome = "TypeError"]
  ELSE IF st.usage_end # None /\ ts >= st.usage_end
  THEN LET c == Commit(st)
       IN [c EXCEPT !.usage_start = None, !.outcome = "running"]
  ELSE st

\* append, lines 180-182: a record at or past the window's end commits the
\* open window first; the start is cleared once the commit has returned.
\* Comparing the record's begin with an end that is a datetime raises.
CommitAtBoundary(st, ts) ==
  IF st.usage_end # None /\ st.dt_window
  THEN [st EXCEPT !.outcome = "TypeError"]
  ELSE IF st.usage_end # None /\ ts >= st.usage_end
  THEN LET c == Commit(st)
       IN IF c.outcome = "running" THEN [c EXCEPT !.usage_start = None] ELSE c
  ELSE st

\* append, lines 184-188: with no start set, the record opens a window.
OpenWindow(st, ts) ==
  IF st.usage_start = None
  THEN [st EXCEPT !.usage_start = ts,
                  !.usage_end = ts + Period,
                  !.usage_start_dt = FromTimestamp(ts),
                  !.usage_end_dt = FromTimestamp(ts + Period),
                  !.opened = Append(@, ts),
                  !.merged = {}]
  ELSE st

\* The merge of one extracted record, with its history.
Merge(st, ts, data) ==
  LET s == Dispatch(st, data)
  IN [s EXCEPT !.merged = @ \cup {ts},
               !.order = Append(@, ts),
               !.windowSum[s.usage_start] = @ + SumUsage(data)]

\* Variant of AppendLoop: the open window is committed once the batch is
\* exhausted.
RECURSIVE AppendLoopFlush(_)
AppendLoopFlush(st) ==
  IF st.raw_data = <<>>
  THEN LET c == Commit(st)
       IN IF c.outcome = "running" THEN [c EXCEPT !.outcome = "ok"] ELSE c
  ELSE
    LET f == FilterPeriod(st.raw_data)
    IN IF ~f.ok THEN [st EXCEPT !.outcome = "TypeError"]
       ELSE
         LET s2 == CommitAtBoundary([st EXCEPT !.raw_data = f.rest], f.ts)
         IN IF s2.outcome # "running" THEN s2
            ELSE AppendLoopFlush(Merge(OpenWindow(s2, f.ts), f.ts, f.usage))

\* append: the while loop over raw_data.
RECURSIVE AppendLoop(_)
AppendLoop(st) ==
  IF st.raw_data = <<>> THEN [st EXCEPT !.outcome = "ok"]
  ELSE
    LET f == FilterPeriod(st.raw_data)
    IN IF ~f.ok THEN [st EXCEPT !.outcome = "TypeError"]
       ELSE
         LET s2 == CommitAtBoundary([st EXCEPT !.raw_data = f.rest], f.ts)
         IN IF s2.outcome # "running" THEN s2
            ELSE AppendLoop(Merge(OpenWindow(s2, f.ts), f.ts, f.usage))

\* utils.dt2ts: the timestamp of a datetime.
Dt2Ts(timeframe) ==
  timeframe.month * MonthLen + timeframe.minute * MinuteLen + timeframe.second

\* _format_data
FormatData(timeframe, data) ==
  LET beg == Dt2Ts(timeframe)
      end == beg + Period
  IN <<[begin |-> beg, end |-> end, usage |-> data]>>

\* The state an operation starts from, as one record.
Start(batch, fail) ==
  [usage_start |-> usage_start, usage_end |-> usage_end,
   usage_start_dt |-> usage_start_dt, usage_end_dt |-> usage_end_dt,
   total |-> total, usage_data |-> usage_data, osrtf |-> osrtf,
   write_pipeline |-> write_pipeline, dt_window |-> dt_window,
   zipfiles |-> zipfiles,
   sm_state |-> sm_state, sm_total |-> sm_total,
   received |-> received, opened |-> opened, committed |-> committed,
   merged |-> merged, windowSum |-> windowSum, ckExpected |-> ckExpected,
   raw_data |-> batch, fail |-> fail, ncommit |-> 0, calls |-> <<>>,
   order |-> <<>>, outcome |-> "running"]

\* The state an operation leaves, and the record of the operation.
Finish(op, batch, st) ==
  /\ usage_start' = st.usage_start
  /\ usage_end' = st.usage_end
  /\ usage_start_dt' = st.usage_start_dt
  /\ usage_end_dt' = st.usage_end_dt
  /\ total' = st.total
  /\ usage_data' = st.usage_data
  /\ osrtf' = st.osrtf
  /\ write_pipeline' = st.write_pipeline
  /\ dt_window' = st.dt_window
  /\ zipfiles' = st.zipfiles
  /\ sm_state' = st.sm_state
  /\ sm_total' = st.sm_total
  /\ received' = st.received
  /\ opened' = st.opened
  /\ committed' = st.committed
  /\ merged' = st.merged
  /\ windowSum' = st.windowSum
  /\ ckExpected' = st.ckExpected
  /\ submitted' = submitted + Len(batch)
  /\ sink_raised' = (sink_raised \/ st.outcome = "SinkError")
  /\ last' = [op |-> op, outcome |-> st.outcome, batch |-> batch,
              raw_data |-> st.raw_data, calls |-> st.calls,
              order |-> st.order, fail |-> st.fail,
              pipeline |-> st.write_pipeline,
              retry |-> last.outcome = "SinkError",
              timeframe |-> None, result |-> <<>>]

\* The sink failures the environment may inject into one operation: none,
\* or the k-th commit of the operation fails at pipeline position i.
Fails(maxCommits) ==
  {NoFail} \cup ((1..maxCommits) \X (1..Len(write_pipeline)))

Init ==
  /\ usage_start = None
  /\ usage_end = None
  /\ usage_start_dt = NoneDt
  /\ usage_end_dt = NoneDt
  /\ total = 0
  /\ usage_data = EmptyDict
  /\ osrtf = None
  /\ write_pipeline = <<>>
  /\ dt_window = FALSE
  /\ zipfiles = [m \in Months |-> <<>>]
  /\ sm_state = None
  /\ sm_total = None
  /\ received = [w \in 1..MaxSinks |-> {}]
  /\ opened = <<>>
  /\ committed = {}
  /\ merged = {}
  /\ windowSum = [w \in Timestamps |-> 0]
  /\ ckExpected = None
  /\ submitted = 0
  /\ sink_raised = FALSE
  /\ last = [op |-> "init", outcome |-> "ok", batch |-> <<>>,
             raw_data |-> <<>>, calls |-> <<>>, order |-> <<>>,
             fail |-> NoFail, pipeline |-> <<>>,
             retry |-> FALSE, timeframe |-> None, result |-> <<>>]

\* add_writer: the sinks are numbered in registration order.
AddWriter ==
  /\ Len(write_pipeline) < MaxSinks
  /\ write_pipeline' = Append(write_pipeline, Len(write_pipeline) + 1)
  /\ UNCHANGED <<usage_start, usage_end, usage_start_dt, usage_end_dt, total,
                 usage_data, osrtf, dt_window, zipfiles, sm_state, sm_total,
                 received, opened, committed, merged, windowSum, ckExpected,
                 submitted, sink_raised, last>>

\* append(raw_data)
AppendOp ==
  /\ \E batch \in BatchesWithin[MaxRecords - submitted] :
       \E fail \in Fails(AppendLoop(Start(batch, NoFail)).ncommit) :
         Finish("append", batch, AppendLoop(Start(batch, fail)))

\* commit()
CommitOp ==
  \E fail \in Fails(1) :
    LET c == Commit(Start(<<>>, fail))
    IN Finish("commit", <<>>,
              IF c.outcome = "running" THEN [c EXCEPT !.outcome = "ok"] ELSE c)

\* get_timeframe(timeframe): the container of the timeframe's month is
\* opened if none is open yet.
GetTimeframe ==
  \E ts \in Timestamps :
    LET timeframe == FromTimestamp(ts)
        container == IF osrtf = None
                     THEN GenOsrtfFilename(timeframe).filename
                     ELSE osrtf
        data == OsrtfGet(zipfiles[container], timeframe)
    IN /\ osrtf' = container
       /\ last' = [op |-> "get_timeframe",
                   outcome |-> IF data.raised THEN "KeyError" ELSE "ok",
                   batch |-> <<>>, raw_data |-> <<>>, calls |-> <<>>,
                   order |-> <<>>, fail |-> NoFail,
                   pipeline |-> write_pipeline, retry |-> FALSE,
                   timeframe |-> ts,
                   result |-> IF data.raised THEN <<>>
                              ELSE FormatData(timeframe, data.value)]
       /\ UNCHANGED <<usage_start, usage_end, usage_start_dt, usage_end_dt,
                      total, usage_data, write_pipeline, dt_window, zipfiles,
                      sm_state, sm_total, received, opened, committed, merged,
                      windowSum, ckExpected, submitted, sink_raised>>

\* A new WriteOrchestrator on the same backend and state manager, primed by
\* _get_state_manager_timeframe: with no state stored, fromtimestamp(None)
\* raises and the instance stays as constructed.
Restart ==
  LET timeframe == sm_state
      primed == timeframe # None
  IN /\ usage_start' = IF primed THEN timeframe ELSE None
     /\ usage_end' = IF primed THEN timeframe + Period ELSE None
     /\ dt_window' = primed
     /\ usage_start_dt' = NoneDt
     /\ usage_end_dt' = NoneDt
     /\ total' = IF primed /\ sm_total # None THEN sm_total ELSE 0
     /\ usage_data' = EmptyDict
     /\ osrtf' = None
     /\ write_pipeline' = <<>>
     /\ opened' = <<>>
     /\ merged' = {}
     /\ last' = [op |-> "restart",
                 outcome |-> IF primed THEN "ok" ELSE "TypeError",
                 batch |-> <<>>, raw_data |-> <<>>, calls |-> <<>>,
                 order |-> <<>>, fail |-> NoFail, pipeline |-> <<>>,
                 retry |-> FALSE, timeframe |-> None, result |-> <<>>]
     /\ UNCHANGED <<zipfiles, sm_state, sm_total, received, committed,
                    windowSum, ckExpected, submitted, sink_raised>>

Next == AddWriter \/ AppendOp \/ CommitOp

Spec == Init /\ [][Next]_vars

\* The orchestrator with no writer added, its archive looked up, and the
\* process restarted from the checkpoint.
NextNoWriter == AppendOp \/ CommitOp \/ GetTimeframe \/ Restart

SpecNoWriter == Init /\ [][NextNoWriter]_vars

\* ------------------------------------------------------------ properties
\* The sinks registered when the last operation ran.
NSinks == Len(last.pipeline)

IsAppendTo(c, i) == c.call = "append" /\ c.sink = last.pipeline[i]

\* The call at position i of the last operation follows the one before it
\* as the commit sequence add, sink 1 .. sink n, set_state, set_metadata
\* prescribes; a new sequence starts only after a completed one.
FollowsCommitOrder(calls, i) ==
  LET c == calls[i]
  IN CASE c.call = "add" ->
            i = 1 \/ calls[i - 1].call = "set_metadata"
       [] c.call = "append" ->
            /\ i > 1
            /\ \E k \in 1..NSinks :
                 /\ IsAppendTo(c, k)
                 /\ IF k = 1 THEN calls[i - 1].call = "add"
                    ELSE IsAppendTo(calls[i - 1], k - 1) /\ ~calls[i - 1].raised
                 /\ c.data = calls[i - k].data
                 /\ c.start = calls[i - k].start
       [] c.call = "set_state" ->
            /\ i > 1
            /\ IF NSinks = 0 THEN calls[i - 1].call = "add"
               ELSE IsAppendTo(calls[i - 1], NSinks) /\ ~calls[i - 1].raised
       [] c.call = "set_metadata" ->
            i > 1 /\ calls[i - 1].call = "set_state"
       [] OTHER -> FALSE

\* C1: every commit, boundary-triggered or explicit, calls the archive add
\* once, then each registered sink once in registration order with the
\* window that was archived, then set_state and set_metadata once; a commit
\* that returns made the whole sequence, and an operation that made no
\* error ends on a completed sequence.
C1_CommitSequence ==
  /\ \A i \in 1..Len(last.calls) : FollowsCommitOrder(last.calls, i)
  /\ (last.outcome = "ok" /\ last.calls # <<>>)
       => last.calls[Len(last.calls)].call = "set_metadata"
  /\ (last.op = "commit" /\ last.outcome = "ok")
       => Len(last.calls) = NSinks + 3

C1_Witness ==
  /\ last.op = "append"
  /\ last.outcome = "ok"
  /\ NSinks = 2
  /\ Len(last.calls) = 5

\* C2: when a sink fails, its call is the last call of the operation: no
\* later sink is called and neither set_state nor set_metadata is called
\* for that commit; and whenever the state manager was set to a window's
\* end, every registered sink had been offered a window with that end.
C2_SinkFailureAborts ==
  /\ \A i \in 1..Len(last.calls) :
       last.calls[i].raised => i = Len(last.calls)
  /\ last.outcome = "SinkError" =>
       /\ last.calls # <<>>
       /\ last.calls[Len(last.calls)].raised
       /\ \E a \in 1..Len(last.calls) :
            /\ last.calls[a].call = "add"
            /\ \A i \in (a + 1)..Len(last.calls) :
                 last.calls[i].call = "append"
  /\ \A i \in 1..Len(last.calls) :
       last.calls[i].call = "set_state" =>
         /\ sm_state # None
         /\ \A k \in 1..NSinks :
              \E w \in received[last.pipeline[k]] : w[2] = last.calls[i].end

C2_Witness ==
  /\ last.outcome = "SinkError"
  /\ NSinks = 2
  /\ last.calls[Len(last.calls)].sink = last.pipeline[1]

\* C3: no record merged into the open window [w, w+P) has begin >= w+P.
C3_WindowPartition ==
  usage_start # None =>
    /\ usage_end = usage_start + Period
    /\ \A b \in merged : b < usage_end

C3_Witness ==
  /\ Len(opened) = 2
  /\ last.op = "append"
  /\ Len(last.order) = 2
  /\ merged = {usage_start}

\* The step is an append (a commit) run from the current state.
AppendStep == last'.op = "append" /\ UNCHANGED write_pipeline

CommitStep == last'.op = "commit" /\ UNCHANGED write_pipeline

Injections(n) ==
  {f \in [1..n -> 1..n] : \A i, j \in 1..n : f[i] = f[j] => i = j}

BatchPermutations(q) ==
  {[i \in 1..Len(q) |-> q[f[i]]] : f \in Injections(Len(q))}

\* C4: the total the state manager holds is the sum of the prices merged
\* into the committed windows as of the last completed commit, and an
\* append leaves the same persisted total for every permutation of its
\* batch.
C4_PersistedTotal ==
  [][/\ sm_total' # None => sm_total' = ckExpected'
     /\ AppendStep =>
          \A p \in BatchPermutations(last'.batch) :
            AppendLoop(Start(p, last'.fail)).sm_total = sm_total']_vars

C4_Witness ==
  /\ last.op = "append"
  /\ last.outcome = "ok"
  /\ Len(last.batch) = 2
  /\ last.batch[1].begin > last.batch[2].begin
  /\ last.calls # <<>>
  /\ sm_total = SumUsage(last.batch[2].usage)
  /\ sm_total >= 2

IsPrefix(p, q) ==
  Len(p) <= Len(q) /\ \A i \in 1..Len(p) : p[i] = q[i]

UniqueNames(infolist) ==
  \A i, j \in 1..Len(infolist) :
    infolist[i].filename = infolist[j].filename => i = j

\* C5: the archive is write-once: no step rewrites or deletes an entry, no
\* container holds two entries of one name, and an add under a name the
\* container already holds leaves every container as it was.
C5_WriteOnce ==
  [][/\ \A m \in DOMAIN zipfiles :
          /\ IsPrefix(zipfiles[m], zipfiles'[m])
          /\ UniqueNames(zipfiles'[m])
     /\ (CommitStep /\ osrtf # None
           /\ FileExists(zipfiles[osrtf], GenFilename(usage_start_dt)))
          => zipfiles' = zipfiles]_vars

\* An add of another payload under a name already written.
C5_Witness ==
  /\ last.op = "commit"
  /\ last.calls # <<>>
  /\ last.calls[1].call = "add"
  /\ last.calls[1].data # EmptyDict
  /\ \E i \in 1..Len(zipfiles[osrtf]) :
       /\ zipfiles[osrtf][i].filename = GenFilename(usage_start_dt)
       /\ zipfiles[osrtf][i].data # last.calls[1].data

\* C6: the windows opened have strictly increasing starts, and every window
\* but the open one was committed before the next one opened.
C6_WindowsOrdered ==
  /\ \A i, j \in 1..Len(opened) : i < j => opened[i] < opened[j]
  /\ \A i \in 1..(Len(opened) - 1) : opened[i] \in committed

C6_Witness ==
  /\ Len(opened) = 2
  /\ usage_start = opened[2]
  /\ opened[1] \in committed
  /\ usage_data # EmptyDict

\* C7 (as claimed): once a commit has completed, no window is open: start,
\* end and accumulated usage are all cleared.
C7_EmptyAfterCommit ==
  (last.op = "commit" /\ last.outcome = "ok") =>
    /\ usage_start = None
    /\ usage_end = None
    /\ usage_data = EmptyDict

\* C8 (as claimed): commit() with no window open (never opened, or nothing
\* merged since the last commit) raises nothing, calls no collaborator and
\* changes no state.
C8_CommitWithoutWindowNoOp ==
  [][(CommitStep /\ (usage_start = None \/ usage_data = EmptyDict)) =>
       /\ last'.outcome = "ok"
       /\ last'.calls = <<>>
       /\ UNCHANGED <<usage_start, usage_end, usage_data, total, zipfiles,
                      sm_state, sm_total>>]_vars

\* C9 (as claimed): on a fresh aggregator one append of a batch of two
\* records with begins b1 and b2 >= b1 + P (b1 = 0 included), no sink
\* failing, makes one commit, of window [b1, b1+P) with the first record's
\* usage, and returns with window [b2, b2+P) open and uncommitted.
C9_ScenarioA ==
  [][(/\ AppendStep
      /\ usage_start = None
      /\ usage_end = None
      /\ Len(last'.batch) = 2
      /\ last'.batch[2].begin >= last'.batch[1].begin + Period
      /\ last'.fail = NoFail) =>
       /\ last'.outcome = "ok"
       /\ Len(last'.calls) = Len(write_pipeline) + 3
       /\ last'.calls[1].call = "add"
       /\ last'.calls[1].start = last'.batch[1].begin
       /\ last'.calls[1].data = last'.batch[1].usage
       /\ sm_state' = last'.batch[1].begin + Period
       /\ usage_start' = last'.batch[2].begin
       /\ usage_end' = last'.batch[2].begin + Period
       /\ usage_data' = last'.batch[2].usage
       /\ last'.batch[2].begin \notin committed']_vars

\* C10: a commit that fails on a sink leaves the window's start, end and
\* usage as they were offered to the sinks, and a commit() retried right
\* after it leaves the archive as it is, offers every registered sink the
\* same usage, start and end, and sets the state manager to that window's
\* end and the running total.
C10_RetryAfterSinkFailure ==
  [][/\ last'.outcome = "SinkError" =>
          LET f == last'.calls[Len(last'.calls)]
          IN /\ f.raised
             /\ usage_data' = f.data
             /\ usage_start' = f.start
             /\ usage_end' = f.end
     /\ (CommitStep /\ last'.outcome = "SinkError") =>
          UNCHANGED <<usage_start, usage_end, usage_data>>
     /\ (CommitStep /\ last.outcome = "SinkError" /\ last'.outcome = "ok") =>
          LET f == last.calls[Len(last.calls)]
              calls == last'.calls
          IN /\ zipfiles' = zipfiles
             /\ \A k \in 1..Len(write_pipeline) :
                  \E i \in 1..Len(calls) :
                    calls[i].call = "append" /\ calls[i].sink = write_pipeline[k]
             /\ \A i \in 1..Len(calls) :
                  calls[i].call = "append" =>
                    /\ calls[i].data = f.data
                    /\ calls[i].start = f.start
                    /\ calls[i].end = f.end
             /\ sm_state' = f.end
             /\ sm_total' = total
             /\ total' = total]_vars

\* A retried commit() that completed, one sink having been offered the
\* window twice.
C10_Witness ==
  /\ last.op = "commit"
  /\ last.outcome = "ok"
  /\ last.retry
  /\ NSinks = 2
  /\ last.calls[1].data # EmptyDict

\* C11 (as claimed): every committed window is archived in the container of
\* its own calendar month: each entry of a container is named after a
\* timeframe of that container's month.
C11_OwnMonthContainer ==
  \A m \in DOMAIN zipfiles :
    \A i \in 1..Len(zipfiles[m]) : zipfiles[m][i].filename[1] = m

\* The batch in ascending begin, records of equal begin in batch order.
RECURSIVE InsertBefore(_, _)
InsertBefore(q, r) ==
  IF q = <<>> \/ r.begin <= Head(q).begin THEN <<r>> \o q
  ELSE <<Head(q)>> \o InsertBefore(Tail(q), r)

RECURSIVE StableSort(_)
StableSort(batch) ==
  IF batch = <<>> THEN <<>>
  ELSE InsertBefore(StableSort(Tail(batch)), Head(batch))

Begins(q) == [i \in 1..Len(q) |-> q[i].begin]

ServiceEntries(data, s) == IF s \in DOMAIN data THEN data[s] ELSE <<>>

RECURSIVE ConcatService(_, _)
ConcatService(q, s) ==
  IF q = <<>> THEN <<>>
  ELSE ServiceEntries(Head(q).usage, s) \o ConcatService(Tail(q), s)

\* C12: within one append the records are merged in ascending begin, the
\* first of equal begins first: the begins merged are an initial part of
\* the batch's begins in stable ascending order, and a batch merged whole
\* into one window leaves each service's sequence extended by the batch's
\* entries for that service in that order.
C12_AscendingStableOrder ==
  [][AppendStep =>
       LET sorted == StableSort(last'.batch)
       IN /\ IsPrefix(last'.order, Begins(sorted))
          /\ (last'.outcome = "ok" /\ last'.calls = <<>>) =>
               \A s \in Services :
                 ServiceEntries(usage_data', s) =
                   ServiceEntries(usage_data, s) \o ConcatService(sorted, s)]_vars

\* An append that merged a batch given latest-first into one window.
C12_Witness ==
  /\ last.op = "append"
  /\ last.outcome = "ok"
  /\ last.calls = <<>>
  /\ Len(last.batch) = 2
  /\ last.batch[1].begin > last.batch[2].begin
  /\ last.order = <<last.batch[2].begin, last.batch[1].begin>>
  /\ usage_start = last.batch[2].begin

\* C13: the lookup never raises: get_timeframe(t) returns one record whose
\* period begins at t and ends at t + Period, carrying the payload of the
\* first entry of the open container under the key of t, and None when
\* there is no such entry.
C13_LookupNeverRaises ==
  last.op = "get_timeframe" =>
    LET infolist == zipfiles[osrtf]
        filename == GenFilename(FromTimestamp(last.timeframe))
        named == {i \in 1..Len(infolist) : infolist[i].filename = filename}
    IN /\ last.outcome = "ok"
       /\ Len(last.result) = 1
       /\ last.result[1].begin = last.timeframe
       /\ last.result[1].end = last.timeframe + Period
       /\ last.result[1].usage =
            IF named = {} THEN Absent
            ELSE Payload(infolist[CHOOSE i \in named :
                                    \A j \in named : i <= j].data)

\* A lookup that found nothing in a container that holds another window.
C13_Witness ==
  /\ last.op = "get_timeframe"
  /\ last.outcome = "ok"
  /\ last.result[1].usage = Absent
  /\ zipfiles[osrtf] # <<>>

RECURSIVE SumBatch(_)
SumBatch(batch) ==
  IF batch = <<>> THEN 0
  ELSE SumUsage(Head(batch).usage) + SumBatch(Tail(batch))

\* C14 (as claimed): an orchestrator primed from the checkpoint has the
\* window from the last committed end to that end plus Period open and the
\* persisted total as its running total, and processing continues from
\* there: the append that follows, of records not before the checkpoint,
\* returns with every record merged, the total grown by their prices, no
\* window committed before the restart committed again, and any total it
\* persists made of the total persisted before the restart and the prices
\* merged since.
C14_PrimedContinues ==
  [][/\ (last'.op = "restart" /\ last'.outcome = "ok") =>
          /\ usage_start' = sm_state
          /\ usage_end' = sm_state + Period
          /\ total' = sm_total
          /\ UNCHANGED <<sm_state, sm_total, zipfiles>>
     /\ (/\ last.op = "restart"
         /\ last.outcome = "ok"
         /\ last'.op = "append"
         /\ \A i \in 1..Len(last'.batch) : last'.batch[i].begin >= sm_state) =>
          /\ last'.outcome = "ok"
          /\ Len(last'.order) = Len(last'.batch)
          /\ total' = sm_total + SumBatch(last'.batch)
          /\ \A i \in 1..Len(last'.calls) :
               /\ last'.calls[i].call = "add" =>
                    last'.calls[i].start \notin committed
               /\ last'.calls[i].call = "set_metadata" =>
                    /\ last'.calls[i].total >= sm_total
                    /\ last'.calls[i].total <= total']_vars

C16_EmptyAppendNoOp ==
  [][(AppendStep /\ last'.batch = <<>>) =>
       /\ last'.outcome = "ok"
       /\ last'.calls = <<>>
       /\ UNCHANGED <<usage_start, usage_end, usage_start_dt, usage_end_dt,
                      usage_data, total, osrtf, zipfiles, sm_state, sm_total,
                      received, committed>>]_vars

\* An empty append made while a window with usage was open.
C16_Witness ==
  /\ last.op = "append"
  /\ last.batch = <<>>
  /\ usage_start # None
  /\ usage_data # EmptyDict
  /\ write_pipeline # <<>>

\* C17 (as claimed): while no sink has raised, the archive and the sinks
\* agree: for every window a sink was offered, get on the window's start
\* returns exactly the usage that sink was offered for it.
C17_ArchiveMatchesSinks ==
  ~sink_raised =>
    \A i \in 1..Len(last.calls) :
      last.calls[i].call = "append" =>
        OsrtfGet(zipfiles[osrtf], FromTimestamp(last.calls[i].start)).value =
          Payload(last.calls[i].data)

\* C18 (as claimed): append loses no record: whatever the outcome, a record
\* of the batch is either still in the batch or has been merged, the
\* record whose boundary commit failed on a sink included.
C18_NoRecordLost ==
  last.op = "append" =>
    /\ Len(last.batch) = Len(last.raw_data) + Len(last.order)
    /\ \A b \in Timestamps :
         Cardinality({i \in 1..Len(last.batch) : last.batch[i].begin = b}) =
           Cardinality({i \in 1..Len(last.raw_data) : last.raw_data[i].begin = b})
           + Cardinality({i \in 1..Len(last.order) : last.order[i] = b})

\* C19 (as claimed): with no sink failing, append of any batch of records
\* with begins from 0 on returns normally with the batch exhausted and
\* every record merged once, one per iteration.
C19_AppendTerminates ==
  (last.op = "append" /\ last.fail = NoFail) =>
    /\ last.outcome = "ok"
    /\ last.raw_data = <<>>
    /\ Len(last.order) = Len(last.batch)
    /\ last.order = Begins(StableSort(last.batch))

\* C20 (as claimed): every record merged into the open window, in whichever
\* append call, begins at or after the window's start.
C20_MergedNotBeforeStart ==
  usage_start # None => \A b \in merged : b >= usage_start

====
